---------------------------- MODULE Spec2Model ----------------------------
(***************************************************************************)
(* Model of the two aspect-attachment scripts of the repository:           *)
(*   src/aspect_attach.py         (tables only, list_dataplex_assets_safely)*)
(*   src/aspect_attach_column.py  (assets, tables and columns, main)       *)
(*                                                                         *)
(* Text is modelled as a sequence of units: a unit is either the blank     *)
(* " " or a blank-free word.  The comma split of --aspects is modelled by  *)
(* giving args.aspects as the sequence of its comma-separated parts, and   *)
(* the "/" split of a resource path by giving the path as the sequence of  *)
(* its components.  A filter that is absent (None) or empty is "".         *)
(***************************************************************************)
EXTENDS Integers, Sequences, FiniteSets, TLC

VARIABLES
    script,            \* which script runs: "attach" or "column"
    args,              \* argparse namespace (both scripts)
    aspects_json,      \* content of aspects.json
    lake,              \* what the Dataplex API answers for the target lake
    pc,                \* position of the run
    expanded_aspects,  \* module-level list of the same name
    TARGET_ASPECTS,    \* module-level list of the same name
    zi, ai, ti, ci,    \* loop positions: zone, asset, table, schema field
    success_count,     \* aspect_attach_column.py main: success_count
    requests,          \* every network call issued so far, in order
    exit_code,         \* process exit code, meaningful once pc = "done"
    outcome            \* how the run ended: "running", "config_error",
                       \* "auth_error", "usage_error", "crash" (uncaught
                       \* exception), "returned" (aspect_attach.py) or
                       \* "verdict" (aspect_attach_column.py lines 186-190)

vars == <<script, args, aspects_json, lake, pc, expanded_aspects,
          TARGET_ASPECTS, zi, ai, ti, ci, success_count, requests, exit_code,
          outcome>>

-----------------------------------------------------------------------------
(* Bounds of the model.                                                    *)

MaxParts == 3      \* comma-separated parts of --aspects
MaxZones == 2      \* zones of a lake

-----------------------------------------------------------------------------
(* Generic helpers.                                                        *)

Range(s) == {s[i] : i \in 1..Len(s)}

SeqsUpTo(S, n) == UNION {[1..k -> S] : k \in 0..n}

RECURSIVE Flatten(_)
Flatten(ss) == IF ss = <<>> THEN <<>> ELSE Head(ss) \o Flatten(Tail(ss))

-----------------------------------------------------------------------------
(* Aspect resolution: module level of both scripts.                        *)

GROUPS_KEY == <<"groups">>

RECURSIVE lstrip(_)
lstrip(s) == IF s # <<>> /\ Head(s) = " " THEN lstrip(Tail(s)) ELSE s

RECURSIVE rstrip(_)
rstrip(s) == IF s # <<>> /\ s[Len(s)] = " "
             THEN rstrip(SubSeq(s, 1, Len(s) - 1)) ELSE s

\* str.strip()
strip(s) == rstrip(lstrip(s))

\* aspects_json.get("groups", {})
aspect_groups(json) ==
    IF GROUPS_KEY \in DOMAIN json THEN json[GROUPS_KEY]
    ELSE [g \in {} |-> <<>>]

\* variant: the reserved key is kept among the aspects
all_aspects_keep_groups(json) == [k \in DOMAIN json |-> json[k]]

\* {k: v for k, v in aspects_json.items() if k != "groups"}
all_aspects(json) == [k \in (DOMAIN json) \ {GROUPS_KEY} |-> json[k]]

\* [a.strip() for a in args.aspects.split(",") if a.strip()]
RECURSIVE input_aspects(_)
input_aspects(parts) ==
    IF parts = <<>> THEN <<>>
    ELSE IF strip(Head(parts)) # <<>>
         THEN <<strip(Head(parts))>> \o input_aspects(Tail(parts))
         ELSE input_aspects(Tail(parts))

\* the expansion loop: extend by the group's members, or append the token
RECURSIVE ExpandLoop(_, _, _)
ExpandLoop(tokens, groups, acc) ==
    IF tokens = <<>> THEN acc
    ELSE LET aspect_name == Head(tokens)
         IN  IF aspect_name \in DOMAIN groups
             THEN ExpandLoop(Tail(tokens), groups, acc \o groups[aspect_name])
             ELSE ExpandLoop(Tail(tokens), groups, Append(acc, aspect_name))

\* variant: a repeated key moves to the position of its last occurrence
RECURSIVE FromKeys_keep_last(_, _)
FromKeys_keep_last(xs, acc) ==
    IF xs = <<>> THEN acc
    ELSE IF Head(xs) \in Range(Tail(xs))
         THEN FromKeys_keep_last(Tail(xs), acc)
         ELSE FromKeys_keep_last(Tail(xs), Append(acc, Head(xs)))

\* list(dict.fromkeys(xs)): keys keep the position of their first insertion
RECURSIVE FromKeys(_, _)
FromKeys(xs, acc) ==
    IF xs = <<>> THEN acc
    ELSE IF Head(xs) \in Range(acc)
         THEN FromKeys(Tail(xs), acc)
         ELSE FromKeys(Tail(xs), Append(acc, Head(xs)))

Expanded(tokens, json) ==
    FromKeys(ExpandLoop(tokens, aspect_groups(json), <<>>), <<>>)

\* [a for a in expanded_aspects if a not in all_aspects]
invalid_aspects(expanded, json) ==
    SelectSeq(expanded, LAMBDA a : a \notin DOMAIN all_aspects(json))

-----------------------------------------------------------------------------
(* The environment: what the Dataplex and BigQuery services answer.        *)

PROJECT_ID == "clean-aleph-411709"
LOCATION == "us-central1"
BQ_PREFIX == <<"", "", "bigquery.googleapis.com">>

\* BigQuery content per DatasetReference <<project, dataset>>.  status is what
\* get_dataset / list_tables answer; schema_ok is whether get_table answers.
BigQuery ==
    (<<"p", "d1">> :> [status |-> "ok", location |-> "us-central1",
                       tables |-> << [table_id |-> "t1", schema_ok |-> TRUE,
                                      schema |-> <<"c1", "c2">>],
                                     [table_id |-> "t2", schema_ok |-> TRUE,
                                      schema |-> <<"c2">>] >>])
 @@ (<<"p", "d2">> :> [status |-> "ok", location |-> "EU",
                       tables |-> << [table_id |-> "t1", schema_ok |-> FALSE,
                                      schema |-> <<>>] >>])
 @@ (<<"p", "d3">> :> [status |-> "ok", location |-> "us-central1",
                       tables |-> <<>>])
 @@ (<<"p", "d5">> :> [status |-> "forbidden", location |-> "us-central1",
                       tables |-> <<>>])
 @@ (<<"p", "d6">> :> [status |-> "ok", location |-> "US",
                       tables |-> << [table_id |-> "t1", schema_ok |-> TRUE,
                                      schema |-> <<"c1">>] >>])

\* a DatasetReference that BigQuery does not know is answered NotFound
Dataset(ref) ==
    IF ref \in DOMAIN BigQuery THEN BigQuery[ref]
    ELSE [status |-> "notfound", location |-> "", tables |-> <<>>]

BqResource(dataset) == BQ_PREFIX \o <<"projects", "p", "datasets", dataset>>

MkAsset(id, type, resource) ==
    [id |-> id, type |-> type, resource |-> resource]

A_d1    == MkAsset("a1", "BIGQUERY_DATASET", BqResource("d1"))
A_d2    == MkAsset("a2", "BIGQUERY_DATASET", BqResource("d2"))
A_d3    == MkAsset("a3", "BIGQUERY_DATASET", BqResource("d3"))
A_d6    == MkAsset("a1", "BIGQUERY_DATASET", BqResource("d6"))
A_nf    == MkAsset("a1", "BIGQUERY_DATASET", BqResource("d4"))
A_forb  == MkAsset("a2", "BIGQUERY_DATASET", BqResource("d5"))
A_short == MkAsset("a2", "BIGQUERY_DATASET", BQ_PREFIX \o <<"projects", "p">>)
A_long  == MkAsset("a1", "BIGQUERY_DATASET", BqResource("d1") \o <<"x">>)
A_none  == MkAsset("a1", "BIGQUERY_DATASET", <<>>)
A_gcs   == MkAsset("a1", "STORAGE_BUCKET", <<"projects", "p", "buckets", "b">>)

MkZone(status, assets) == [status |-> status, assets |-> assets]

ZoneKinds ==
    { MkZone("ok", <<A_d1>>),
      MkZone("ok", <<A_short, A_d6>>),
      MkZone("ok", <<A_none, A_long, A_d2>>),
      MkZone("ok", <<A_forb, A_d6>>),
      MkZone("ok", <<A_gcs, A_nf, A_d3, A_d6>>),
      MkZone("ok", <<>>),
      MkZone("error", <<>>) }

Lakes ==
    { [status |-> "ok", zones |-> zs] : zs \in SeqsUpTo(ZoneKinds, MaxZones) }
    \cup { [status |-> "notfound", zones |-> <<>>] }

-----------------------------------------------------------------------------
(* Inputs of a run.                                                        *)

Scripts == {"attach", "column"}

\* comma-separated parts of --aspects: a blank part, ids (one padded with
\* blanks), group names, the reserved word
RawParts ==
    { <<" ">>, <<"x">>, <<" ", "y", " ">>, <<"g">>, <<"h">>, <<"groups">> }

MkJson(keys, groups) ==
    [k \in keys |-> "data"] @@ (GROUPS_KEY :> groups)

Catalogs ==
    { MkJson({<<"x">>, <<"y">>, <<"z">>},
             (<<"g">> :> << <<"x">>, <<"y">> >>)
             @@ (<<"h">> :> << <<"y">>, <<"z">>, <<"x">> >>)),
      MkJson({<<"x">>, <<"y">>},
             (<<"g">> :> << <<"y">>, <<"x">> >>)
             @@ (<<"h">> :> << <<"z">>, <<"y">> >>)),
      MkJson({<<"x">>, <<"y">>, <<"g">>},
             (<<"g">> :> << <<"x">>, <<"x">> >>)
             @@ (<<"h">> :> << <<"g">> >>)),
      [k \in {<<"x">>, <<"y">>, <<"g">>} |-> "data"] }

MkArgs(entry_type, asset, table, column, include_columns, aspects) ==
    [entry_type |-> entry_type, lake |-> "L", asset |-> asset,
     table |-> table, column |-> column,
     include_columns |-> include_columns, aspects |-> aspects]

\* aspect_attach.py has no --entry_type, --column, --include_columns
Scopes(s) ==
    IF s = "attach"
    THEN { MkArgs("table", a, t, "", "false", << <<"g">> >>) :
             a \in {"", "a1"}, t \in {"", "t1"} }
    ELSE { MkArgs("asset", a, "", "", "false", << <<"g">> >>) :
             a \in {"", "a1"} }
         \cup
         { MkArgs("table", a, t, "", "false", << <<"g">> >>) :
             a \in {"", "a1"}, t \in {"", "t1"} }
         \cup
         { MkArgs("table", "", t, "", "true", << <<"g">> >>) :
             t \in {"", "t1"} }
         \cup
         { MkArgs("column", a, t, "c1", "false", << <<"g">> >>) :
             a \in {"", "a1"}, t \in {"", "t1"} }
         \cup
         { MkArgs("column", "", t, "", "false", << <<"g">> >>) :
             t \in {"", "t1"} }

\* the scopes under which the aspect selection is varied
ResolveScopes(s) ==
    IF s = "attach"
    THEN { MkArgs("table", "", "t1", "", "false", <<>>) }
    ELSE { MkArgs("asset", "", "", "", "false", <<>>),
           MkArgs("table", "", "t1", "", "true", <<>>),
           MkArgs("column", "", "t1", "c1", "false", <<>>) }

DefaultCatalog ==
    MkJson({<<"x">>, <<"y">>, <<"z">>},
           (<<"g">> :> << <<"x">>, <<"y">> >>)
           @@ (<<"h">> :> << <<"y">>, <<"z">>, <<"x">> >>))

DefaultLake == [status |-> "ok", zones |-> << MkZone("ok", <<A_d6>>) >>]

InitControl ==
    /\ pc = "resolve"
    /\ expanded_aspects = <<>>
    /\ TARGET_ASPECTS = <<>>
    /\ zi = 0 /\ ai = 0 /\ ti = 0 /\ ci = 0
    /\ success_count = 0
    /\ requests = <<>>
    /\ exit_code = 0
    /\ outcome = "running"

\* every aspect selection and catalog, on one small lake
InitResolve ==
    /\ script \in Scripts
    /\ \E sc \in ResolveScopes(script), parts \in SeqsUpTo(RawParts, MaxParts) :
         args = [sc EXCEPT !.aspects = parts]
    /\ aspects_json \in Catalogs
    /\ lake = DefaultLake
    /\ InitControl

\* every lake and scope, with one valid aspect selection
InitWalk ==
    /\ script \in Scripts
    /\ args \in Scopes(script)
    /\ aspects_json = DefaultCatalog
    /\ lake \in Lakes
    /\ InitControl

Init == InitResolve \/ InitWalk

-----------------------------------------------------------------------------
(* Steps shared by both scripts.                                           *)

inputs == <<script, args, aspects_json, lake>>
cursor == <<zi, ai, ti, ci>>

\* sys.exit(code), or an uncaught exception (code 1), or falling off the end
Exit(code, how) ==
    /\ pc' = "done"
    /\ exit_code' = code
    /\ outcome' = how

Request(op, target, column, status) ==
    [op |-> op, target |-> target, column |-> column, status |-> status,
     aspects |-> IF op = "patch" THEN TARGET_ASPECTS ELSE <<>>,
     at |-> <<zi, ai, ti, ci>>]

Send(op, target, column, status) ==
    requests' = Append(requests, Request(op, target, column, status))

\* lines 31-57 of aspect_attach.py, 33-55 of aspect_attach_column.py
Resolve ==
    /\ pc = "resolve"
    /\ LET tokens == input_aspects(args.aspects)
           expanded == Expanded(tokens, aspects_json)
       IN  IF tokens = <<>>
           THEN /\ Exit(1, "config_error")
                /\ UNCHANGED <<expanded_aspects, TARGET_ASPECTS>>
           ELSE /\ expanded_aspects' = expanded
                /\ IF invalid_aspects(expanded, aspects_json) # <<>>
                   THEN /\ Exit(1, "config_error")
                        /\ UNCHANGED TARGET_ASPECTS
                   ELSE /\ TARGET_ASPECTS' = expanded
                        /\ pc' = "auth"
                        /\ UNCHANGED <<exit_code, outcome>>
    /\ UNCHANGED <<inputs, cursor, success_count, requests>>

\* the PATCH answers: 200, or a permission-denied / generic failure
PatchStatuses == {200, 403}

\* HTTP status of a listing, from what the environment holds
HttpStatus(status) ==
    CASE status = "ok"        -> 200
      [] status = "notfound"  -> 404
      [] status = "forbidden" -> 403
      [] OTHER                -> 500

\* str.lower() on the locations BigQuery reports
lower(s) == IF s = "EU" THEN "eu" ELSE IF s = "US" THEN "us" ELSE s

\* bq_resource.replace("//bigquery.googleapis.com/", "").split('/')
PathParts(resource) ==
    IF Len(resource) > 3 /\ SubSeq(resource, 1, 3) = BQ_PREFIX
    THEN SubSeq(resource, 4, Len(resource))
    ELSE resource

CurZone == lake.zones[zi]
CurAsset == CurZone.assets[ai]
CurParts == PathParts(CurAsset.resource)
\* parts[1], parts[3] (0-based)
CurRef == <<CurParts[2], CurParts[4]>>
CurTables == Dataset(CurRef).tables
CurTable == CurTables[ti]

\* an uncaught exception ends the process with a traceback and code 1
Crash == Exit(1, "crash")

-----------------------------------------------------------------------------
(* aspect_attach_column.py: attach_aspects and main.                       *)

\* variant: every attempt is counted, whatever the PATCH answered
attach_aspects_count_all(entry, column_name, status) ==
    /\ Send("patch", entry, column_name, status)
    /\ success_count' = success_count + 1

\* attach_aspects(headers, entry_name, aspects_data, column_name): one PATCH,
\* True exactly on status 200.  entry is the entry name's components.
attach_aspects(entry, column_name, status) ==
    /\ Send("patch", entry, column_name, status)
    /\ success_count' = IF status = 200 THEN success_count + 1
                        ELSE success_count

\* lines 89-108
Main_Auth ==
    /\ pc = "auth" /\ script = "column"
    /\ \E ok \in BOOLEAN :
         IF ok THEN pc' = "list_zones" /\ UNCHANGED <<exit_code, outcome>>
         ELSE Exit(1, "auth_error")
    /\ UNCHANGED <<inputs, expanded_aspects, TARGET_ASPECTS, cursor,
                   success_count, requests>>

\* lines 115-117
Main_ListZones ==
    /\ pc = "list_zones" /\ script = "column"
    /\ Send("zones", <<args.lake>>, "", HttpStatus(lake.status))
    /\ IF lake.status = "ok"
       THEN /\ zi' = 1 /\ pc' = "for_zone"
            /\ UNCHANGED <<exit_code, outcome>>
       ELSE Crash /\ UNCHANGED zi
    /\ UNCHANGED <<inputs, expanded_aspects, TARGET_ASPECTS, ai, ti, ci,
                   success_count>>

\* lines 119-122
Main_ForZone ==
    /\ pc = "for_zone" /\ script = "column"
    /\ IF zi > Len(lake.zones)
       THEN /\ pc' = "verdict"
            /\ UNCHANGED <<ai, requests, exit_code, outcome>>
       ELSE /\ Send("assets", <<args.lake>>, "", HttpStatus(CurZone.status))
            /\ IF CurZone.status = "ok"
               THEN /\ ai' = 1 /\ pc' = "for_asset"
                    /\ UNCHANGED <<exit_code, outcome>>
               ELSE Crash /\ UNCHANGED ai
    /\ UNCHANGED <<inputs, expanded_aspects, TARGET_ASPECTS, zi, ti, ci,
                   success_count>>

\* lines 124-139 and the dispatch of lines 142 and 150
Main_ForAsset ==
    /\ pc = "for_asset" /\ script = "column"
    /\ IF ai > Len(CurZone.assets)
       THEN /\ zi' = zi + 1 /\ pc' = "for_zone" /\ UNCHANGED ai
       ELSE IF \/ (args.asset # "" /\ CurAsset.id # args.asset)
               \/ CurAsset.resource = <<>>
               \/ Len(CurParts) # 4
            THEN /\ ai' = ai + 1 /\ UNCHANGED <<zi, pc>>
            ELSE IF args.entry_type = "asset"
            THEN /\ pc' = "attach_asset" /\ UNCHANGED <<zi, ai>>
            ELSE IF /\ args.entry_type \in {"table", "column"}
                    /\ CurAsset.type = "BIGQUERY_DATASET"
            THEN /\ pc' = "list_tables" /\ UNCHANGED <<zi, ai>>
            ELSE /\ ai' = ai + 1 /\ UNCHANGED <<zi, pc>>
    /\ UNCHANGED <<inputs, expanded_aspects, TARGET_ASPECTS, ti, ci,
                   success_count, requests, exit_code, outcome>>

\* lines 143-147
Main_AttachAsset ==
    /\ pc = "attach_asset" /\ script = "column"
    /\ \E status \in PatchStatuses :
         attach_aspects(<<LOCATION>> \o CurRef, "", status)
    /\ ai' = ai + 1
    /\ pc' = "for_asset"
    /\ UNCHANGED <<inputs, expanded_aspects, TARGET_ASPECTS, zi, ti, ci,
                   exit_code, outcome>>

\* lines 151-155: NotFound skips the asset, any other error is not caught
Main_ListTables ==
    /\ pc = "list_tables" /\ script = "column"
    /\ Send("tables", CurRef, "", HttpStatus(Dataset(CurRef).status))
    /\ CASE Dataset(CurRef).status = "ok" ->
              /\ ti' = 1 /\ pc' = "for_table"
              /\ UNCHANGED <<ai, exit_code, outcome>>
         [] Dataset(CurRef).status = "notfound" ->
              /\ ai' = ai + 1 /\ pc' = "for_asset"
              /\ UNCHANGED <<ti, exit_code, outcome>>
         [] OTHER -> Crash /\ UNCHANGED <<ai, ti>>
    /\ UNCHANGED <<inputs, expanded_aspects, TARGET_ASPECTS, zi, ci,
                   success_count>>

\* variant: the table filter is not applied
Main_ForTable_no_table_filter ==
    /\ pc = "for_table" /\ script = "column"
    /\ IF ti > Len(CurTables)
       THEN /\ ai' = ai + 1 /\ pc' = "for_asset"
            /\ UNCHANGED <<ti, exit_code, outcome>>
       ELSE IF args.entry_type = "table"
            THEN /\ pc' = "attach_table"
                 /\ UNCHANGED <<ai, ti, exit_code, outcome>>
            ELSE IF args.column = ""
            THEN Exit(1, "usage_error") /\ UNCHANGED <<ai, ti>>
            ELSE /\ pc' = "attach_column"
                 /\ UNCHANGED <<ai, ti, exit_code, outcome>>
    /\ UNCHANGED <<inputs, expanded_aspects, TARGET_ASPECTS, zi, ci,
                   success_count, requests>>

\* lines 157-165 and 178-181
Main_ForTable ==
    /\ pc = "for_table" /\ script = "column"
    /\ IF ti > Len(CurTables)
       THEN /\ ai' = ai + 1 /\ pc' = "for_asset"
            /\ UNCHANGED <<ti, exit_code, outcome>>
       ELSE IF args.table # "" /\ CurTable.table_id # args.table
            THEN /\ ti' = ti + 1
                 /\ UNCHANGED <<ai, pc, exit_code, outcome>>
            ELSE IF args.entry_type = "table"
            THEN /\ pc' = "attach_table"
                 /\ UNCHANGED <<ai, ti, exit_code, outcome>>
            ELSE IF args.column = ""
            THEN Exit(1, "usage_error") /\ UNCHANGED <<ai, ti>>
            ELSE /\ pc' = "attach_column"
                 /\ UNCHANGED <<ai, ti, exit_code, outcome>>
    /\ UNCHANGED <<inputs, expanded_aspects, TARGET_ASPECTS, zi, ci,
                   success_count, requests>>

\* variant: the columns of a table are walked only when the table's own
\* attach succeeded
Main_AttachTable_columns_on_success ==
    /\ pc = "attach_table" /\ script = "column"
    /\ \E status \in PatchStatuses :
         /\ attach_aspects(<<LOCATION>> \o CurRef \o <<CurTable.table_id>>,
                           "", status)
         /\ IF args.include_columns = "true" /\ status = 200
            THEN pc' = "get_schema" /\ UNCHANGED ti
            ELSE pc' = "for_table" /\ ti' = ti + 1
    /\ UNCHANGED <<inputs, expanded_aspects, TARGET_ASPECTS, zi, ai, ci,
                   exit_code, outcome>>

\* lines 166-171
Main_AttachTable ==
    /\ pc = "attach_table" /\ script = "column"
    /\ \E status \in PatchStatuses :
         attach_aspects(<<LOCATION>> \o CurRef \o <<CurTable.table_id>>, "",
                        status)
    /\ IF args.include_columns = "true"
       THEN pc' = "get_schema" /\ UNCHANGED ti
       ELSE pc' = "for_table" /\ ti' = ti + 1
    /\ UNCHANGED <<inputs, expanded_aspects, TARGET_ASPECTS, zi, ai, ci,
                   exit_code, outcome>>

\* line 172: bq_client.get_table(table).schema, not guarded
Main_GetSchema ==
    /\ pc = "get_schema" /\ script = "column"
    /\ Send("schema", CurRef \o <<CurTable.table_id>>, "",
            IF CurTable.schema_ok THEN 200 ELSE 500)
    /\ IF CurTable.schema_ok
       THEN /\ ci' = 1 /\ pc' = "for_field"
            /\ UNCHANGED <<exit_code, outcome>>
       ELSE Crash /\ UNCHANGED ci
    /\ UNCHANGED <<inputs, expanded_aspects, TARGET_ASPECTS, zi, ai, ti,
                   success_count>>

\* lines 173-175
Main_ForField ==
    /\ pc = "for_field" /\ script = "column"
    /\ IF ci > Len(CurTable.schema)
       THEN /\ ti' = ti + 1 /\ pc' = "for_table"
            /\ UNCHANGED <<ci, success_count, requests>>
       ELSE /\ \E status \in PatchStatuses :
                 attach_aspects(<<LOCATION>> \o CurRef \o <<CurTable.table_id>>,
                                CurTable.schema[ci], status)
            /\ ci' = ci + 1
            /\ UNCHANGED <<ti, pc>>
    /\ UNCHANGED <<inputs, expanded_aspects, TARGET_ASPECTS, zi, ai,
                   exit_code, outcome>>

\* lines 182-184
Main_AttachColumn ==
    /\ pc = "attach_column" /\ script = "column"
    /\ \E status \in PatchStatuses :
         attach_aspects(<<LOCATION>> \o CurRef \o <<CurTable.table_id>>,
                        args.column, status)
    /\ ti' = ti + 1
    /\ pc' = "for_table"
    /\ UNCHANGED <<inputs, expanded_aspects, TARGET_ASPECTS, zi, ai, ci,
                   exit_code, outcome>>

\* lines 186-190
Main_Verdict ==
    /\ pc = "verdict" /\ script = "column"
    /\ IF success_count = 0 THEN Exit(1, "verdict") ELSE Exit(0, "verdict")
    /\ UNCHANGED <<inputs, expanded_aspects, TARGET_ASPECTS, cursor,
                   success_count, requests>>

-----------------------------------------------------------------------------
(* aspect_attach.py: attach_aspects and list_dataplex_assets_safely.       *)
(* Every exception raised inside the try of lines 113-174 is caught at     *)
(* lines 170-174; the function then returns and the process ends with 0.   *)

Returned == Exit(0, "returned")

\* lines 97-111
Safely_Auth ==
    /\ pc = "auth" /\ script = "attach"
    /\ \E ok \in BOOLEAN :
         IF ok THEN pc' = "get_lake" /\ UNCHANGED <<exit_code, outcome>>
         ELSE Exit(1, "auth_error")
    /\ UNCHANGED <<inputs, expanded_aspects, TARGET_ASPECTS, cursor,
                   success_count, requests>>

\* lines 114-117
Safely_GetLake ==
    /\ pc = "get_lake" /\ script = "attach"
    /\ Send("lake", <<args.lake>>, "", HttpStatus(lake.status))
    /\ IF lake.status = "ok"
       THEN pc' = "list_zones" /\ UNCHANGED <<exit_code, outcome>>
       ELSE Returned
    /\ UNCHANGED <<inputs, expanded_aspects, TARGET_ASPECTS, cursor,
                   success_count>>

\* lines 119-125
Safely_ListZones ==
    /\ pc = "list_zones" /\ script = "attach"
    /\ Send("zones", <<args.lake>>, "", HttpStatus(lake.status))
    /\ IF lake.status # "ok" \/ lake.zones = <<>>
       THEN Returned /\ UNCHANGED zi
       ELSE /\ zi' = 1 /\ pc' = "for_zone"
            /\ UNCHANGED <<exit_code, outcome>>
    /\ UNCHANGED <<inputs, expanded_aspects, TARGET_ASPECTS, ai, ti, ci,
                   success_count>>

\* lines 127-137
Safely_ForZone ==
    /\ pc = "for_zone" /\ script = "attach"
    /\ IF zi > Len(lake.zones)
       THEN Returned /\ UNCHANGED <<zi, ai, requests>>
       ELSE /\ Send("assets", <<args.lake>>, "", HttpStatus(CurZone.status))
            /\ IF CurZone.status # "ok"
               THEN Returned /\ UNCHANGED <<zi, ai>>
               ELSE IF CurZone.assets = <<>>
               THEN /\ zi' = zi + 1
                    /\ UNCHANGED <<ai, pc, exit_code, outcome>>
               ELSE /\ ai' = 1 /\ pc' = "for_asset"
                    /\ UNCHANGED <<zi, exit_code, outcome>>
    /\ UNCHANGED <<inputs, expanded_aspects, TARGET_ASPECTS, ti, ci,
                   success_count>>

\* lines 139-152 and 167-168: None.replace raises AttributeError, parts[1] or
\* parts[3] of a short path raises IndexError
Safely_ForAsset ==
    /\ pc = "for_asset" /\ script = "attach"
    /\ IF ai > Len(CurZone.assets)
       THEN /\ zi' = zi + 1 /\ pc' = "for_zone"
            /\ UNCHANGED <<ai, exit_code, outcome>>
       ELSE IF \/ (args.asset # "" /\ CurAsset.id # args.asset)
               \/ CurAsset.type # "BIGQUERY_DATASET"
            THEN /\ ai' = ai + 1
                 /\ UNCHANGED <<zi, pc, exit_code, outcome>>
            ELSE IF CurAsset.resource = <<>> \/ Len(CurParts) < 4
            THEN Returned /\ UNCHANGED <<zi, ai>>
            ELSE /\ pc' = "get_dataset"
                 /\ UNCHANGED <<zi, ai, exit_code, outcome>>
    /\ UNCHANGED <<inputs, expanded_aspects, TARGET_ASPECTS, ti, ci,
                   success_count, requests>>

\* lines 153-155
Safely_GetDataset ==
    /\ pc = "get_dataset" /\ script = "attach"
    /\ Send("dataset", CurRef, "", HttpStatus(Dataset(CurRef).status))
    /\ IF Dataset(CurRef).status = "ok"
       THEN pc' = "list_tables" /\ UNCHANGED <<exit_code, outcome>>
       ELSE Returned
    /\ UNCHANGED <<inputs, expanded_aspects, TARGET_ASPECTS, cursor,
                   success_count>>

\* lines 157-160
Safely_ListTables ==
    /\ pc = "list_tables" /\ script = "attach"
    /\ Send("tables", CurRef, "", HttpStatus(Dataset(CurRef).status))
    /\ IF Dataset(CurRef).status # "ok"
       THEN Returned /\ UNCHANGED <<ai, ti>>
       ELSE IF CurTables = <<>>
       THEN /\ ai' = ai + 1 /\ pc' = "for_asset"
            /\ UNCHANGED <<ti, exit_code, outcome>>
       ELSE /\ ti' = 1 /\ pc' = "for_table"
            /\ UNCHANGED <<ai, exit_code, outcome>>
    /\ UNCHANGED <<inputs, expanded_aspects, TARGET_ASPECTS, zi, ci,
                   success_count>>

\* lines 162-166, with attach_aspects of lines 73-93: one PATCH whose answer
\* is printed and not returned
Safely_ForTable ==
    /\ pc = "for_table" /\ script = "attach"
    /\ IF ti > Len(CurTables)
       THEN /\ ai' = ai + 1 /\ pc' = "for_asset"
            /\ UNCHANGED <<ti, requests>>
       ELSE IF args.table # "" /\ CurTable.table_id # args.table
            THEN /\ ti' = ti + 1
                 /\ UNCHANGED <<ai, pc, requests>>
            ELSE /\ \E status \in PatchStatuses :
                      Send("patch",
                           <<lower(Dataset(CurRef).location)>> \o CurRef
                              \o <<CurTable.table_id>>,
                           "", status)
                 /\ ti' = ti + 1
                 /\ UNCHANGED <<ai, pc>>
    /\ UNCHANGED <<inputs, expanded_aspects, TARGET_ASPECTS, zi, ci,
                   success_count, exit_code, outcome>>

-----------------------------------------------------------------------------

Next ==
    \/ Resolve
    \/ Main_Auth
    \/ Main_ListZones
    \/ Main_ForZone
    \/ Main_ForAsset
    \/ Main_AttachAsset
    \/ Main_ListTables
    \/ Main_ForTable
    \/ Main_AttachTable
    \/ Main_GetSchema
    \/ Main_ForField
    \/ Main_AttachColumn
    \/ Main_Verdict
    \/ Safely_Auth
    \/ Safely_GetLake
    \/ Safely_ListZones
    \/ Safely_ForZone
    \/ Safely_ForAsset
    \/ Safely_GetDataset
    \/ Safely_ListTables
    \/ Safely_ForTable

\* all runs
Spec == Init /\ [][Next]_vars

\* the runs that vary the aspect selection and the catalog
SpecResolve == InitResolve /\ [][Next]_vars

\* the runs that vary the lake and the scope
SpecWalk == InitWalk /\ [][Next]_vars

TypeOK ==
    /\ pc \in {"resolve", "auth", "get_lake", "list_zones", "for_zone",
               "for_asset", "attach_asset", "get_dataset", "list_tables",
               "for_table", "attach_table", "get_schema", "for_field",
               "attach_column", "verdict", "done"}
    /\ exit_code \in {0, 1}
    /\ success_count \in Nat

-----------------------------------------------------------------------------
(* Vocabulary of the properties.                                           *)

Tokens == input_aspects(args.aspects)

Catalogue == (DOMAIN aspects_json) \ {GROUPS_KEY}

GroupNames ==
    IF GROUPS_KEY \in DOMAIN aspects_json
    THEN DOMAIN aspects_json[GROUPS_KEY] ELSE {}

\* what one token stands for
TokenExpansion(tok) ==
    IF tok \in GroupNames THEN aspects_json[GROUPS_KEY][tok] ELSE <<tok>>

Concatenation == Flatten([i \in 1..Len(Tokens) |-> TokenExpansion(Tokens[i])])

RECURSIVE InOrder(_, _)
InOrder(e, idx) ==
    IF idx = {} THEN <<>>
    ELSE LET m == CHOOSE i \in idx : \A k \in idx : i <= k
         IN  <<e[m]>> \o InOrder(e, idx \ {m})

\* e without every later repeat of an element
FirstOccurrences(e) ==
    InOrder(e, {i \in 1..Len(e) : \A j \in 1..(i - 1) : e[j] # e[i]})

NoRepeat(e) == \A i, j \in 1..Len(e) : e[i] = e[j] => i = j

Patches == SelectSeq(requests, LAMBDA r : r.op = "patch")

Att(target, column) == [target |-> target, column |-> column]

\* the attach attempts made so far: (entry name, optional column name)
Attempts ==
    LET ps == Patches
    IN  [i \in 1..Len(ps) |-> Att(ps[i].target, ps[i].column)]

NumOk ==
    Cardinality({i \in 1..Len(requests) :
                   requests[i].op = "patch" /\ requests[i].status = 200})

\* the zone, asset and table a request was made for
ZoneAt(r) == lake.zones[r.at[1]]
AssetAt(r) == ZoneAt(r).assets[r.at[2]]
TableAt(r) ==
    LET ps == PathParts(AssetAt(r).resource)
    IN  Dataset(<<ps[2], ps[4]>>).tables[r.at[3]]

PassesAsset(a) == args.asset = "" \/ a.id = args.asset
PassesTable(t) == args.table = "" \/ t.table_id = args.table

\* items up to and including the first one on which the walk ends
Cut(items, Ends(_)) ==
    LET bad == {i \in 1..Len(items) : Ends(items[i])}
    IN  IF bad = {} THEN items
        ELSE SubSeq(items, 1, CHOOSE i \in bad : \A k \in bad : i <= k)

-----------------------------------------------------------------------------
(* Aspect resolution.                                                      *)

Resolved == pc # "resolve" /\ Tokens # <<>>

\* C1: once the selection is expanded, the resolved list is the
\* concatenation, in token order, of each token's expansion (the group's
\* members when the token names a group, else the token) with every later
\* repeat of an id removed; no id occurs twice; TARGET_ASPECTS, once
\* assigned, is that list.
C1_Expansion ==
    Resolved =>
        /\ expanded_aspects = FirstOccurrences(Concatenation)
        /\ NoRepeat(expanded_aspects)
        /\ (pc # "done" \/ outcome # "config_error"
              => TARGET_ASPECTS = expanded_aspects)

\* C1 witness: a selection was resolved in which an id came once literally
\* and once through a group, and the repeat was dropped
C1_Witness ==
    /\ Resolved
    /\ TARGET_ASPECTS # <<>>
    /\ Len(TARGET_ASPECTS) < Len(Concatenation)
    /\ \E i, j \in 1..Len(Tokens) :
         /\ Tokens[i] \in GroupNames
         /\ Tokens[j] \notin GroupNames
         /\ Tokens[j] \in Range(TokenExpansion(Tokens[i]))

Unresolvable ==
    \/ Tokens = <<>>
    \/ \E id \in Range(Concatenation) : id \notin Catalogue

\* C2: a run whose selection is empty after trimming, or whose expansion
\* holds an id that is no aspect of the catalog, ends with exit code 1 at
\* resolution and has issued no network call.
C2_FailsClosed ==
    (pc # "resolve" /\ Unresolvable) =>
        /\ pc = "done"
        /\ exit_code = 1
        /\ outcome = "config_error"
        /\ requests = <<>>

\* C2 witness: a run ended at resolution on a selection that mixes ids of the
\* catalog with one that is not
C2_Witness ==
    /\ pc = "done"
    /\ outcome = "config_error"
    /\ \E id \in Range(Concatenation) : id \in Catalogue
    /\ \E id \in Range(Concatenation) : id \notin Catalogue

-----------------------------------------------------------------------------
(* The reference traversal of aspect_attach_column.py: the attach attempts *)
(* of a lake under a scope, as a function of the lake and the scope alone. *)
(* With fatal = TRUE a failed listing, an unreadable schema or a missing   *)
(* --column ends the walk where it happens; with fatal = FALSE a failed    *)
(* listing or schema only skips its own branch.                            *)

RefOf(a) == LET ps == PathParts(a.resource) IN <<ps[2], ps[4]>>

WellFormed(a) == a.resource # <<>> /\ Len(PathParts(a.resource)) = 4

Walked(a) == PassesAsset(a) /\ WellFormed(a)

Descended(a) ==
    Walked(a) /\ args.entry_type # "asset" /\ a.type = "BIGQUERY_DATASET"

MatchingTables(a) == SelectSeq(Dataset(RefOf(a)).tables, PassesTable)

EntryOf(a, t) == <<LOCATION>> \o RefOf(a) \o <<t.table_id>>

TableAttempts(a, t) ==
    IF args.entry_type = "table"
    THEN <<Att(EntryOf(a, t), "")>>
         \o (IF args.include_columns = "true" /\ t.schema_ok
             THEN [i \in 1..Len(t.schema) |-> Att(EntryOf(a, t), t.schema[i])]
             ELSE <<>>)
    ELSE IF args.column # "" THEN <<Att(EntryOf(a, t), args.column)>>
    ELSE <<>>

TableEnds(t, fatal) ==
    IF args.entry_type = "table"
    THEN fatal /\ args.include_columns = "true" /\ ~t.schema_ok
    ELSE args.column = ""

AssetAttempts(a, fatal) ==
    IF ~Walked(a) THEN <<>>
    ELSE IF args.entry_type = "asset"
    THEN <<Att(<<LOCATION>> \o RefOf(a), "")>>
    ELSE IF ~Descended(a) \/ Dataset(RefOf(a)).status # "ok" THEN <<>>
    ELSE LET ts == Cut(MatchingTables(a), LAMBDA t : TableEnds(t, fatal))
         IN  Flatten([i \in 1..Len(ts) |-> TableAttempts(a, ts[i])])

AssetEnds(a, fatal) ==
    /\ Descended(a)
    /\ \/ fatal /\ Dataset(RefOf(a)).status \notin {"ok", "notfound"}
       \/ /\ Dataset(RefOf(a)).status = "ok"
          /\ \E t \in Range(MatchingTables(a)) : TableEnds(t, fatal)

ZoneAttempts(z, fatal) ==
    IF z.status # "ok" THEN <<>>
    ELSE LET walked == Cut(z.assets, LAMBDA a : AssetEnds(a, fatal))
         IN  Flatten([i \in 1..Len(walked) |->
                        AssetAttempts(walked[i], fatal)])

ZoneEnds(z, fatal) ==
    \/ fatal /\ z.status # "ok"
    \/ z.status = "ok" /\ \E a \in Range(z.assets) : AssetEnds(a, fatal)

ExpectedAttempts(fatal) ==
    IF lake.status # "ok" THEN <<>>
    ELSE LET zs == Cut(lake.zones, LAMBDA z : ZoneEnds(z, fatal))
         IN  Flatten([i \in 1..Len(zs) |-> ZoneAttempts(zs[i], fatal)])

-----------------------------------------------------------------------------
(* aspect_attach_column.py: verdict and traversal.                         *)

\* C3: when main reaches its verdict, success_count is the number of PATCH
\* calls answered 200 and the exit code is 0 exactly when that number is at
\* least 1 (and 1 when it is 0).
C3_Verdict ==
    (script = "column" /\ outcome = "verdict") =>
        /\ success_count = NumOk
        /\ exit_code \in {0, 1}
        /\ (exit_code = 0 <=> NumOk >= 1)

\* C3 witness: a verdict of success over a run with a failed attempt, a
\* succeeded table-level attempt and a succeeded column-level attempt
C3_Witness ==
    /\ script = "column" /\ outcome = "verdict" /\ exit_code = 0
    /\ \E i \in 1..Len(Patches) : Patches[i].status # 200
    /\ \E i \in 1..Len(Patches) :
         Patches[i].status = 200 /\ Patches[i].column = ""
    /\ \E i \in 1..Len(Patches) :
         Patches[i].status = 200 /\ Patches[i].column # ""

\* C9: once a run has ended (by its verdict, by an uncaught listing error or
\* by the missing --column exit), its attach attempts, in order, are the
\* reference traversal, which depends on the lake and the scope only and not
\* on what the PATCH calls answered; and at every moment success_count is the
\* number of attempts answered 200, so a failure leaves it where it was.
C9_TraversalUnaffected ==
    script = "column" =>
        /\ (pc = "done" /\ outcome \in {"verdict", "crash", "usage_error"}
              => Attempts = ExpectedAttempts(TRUE))
        /\ success_count = NumOk

\* C9 witness: a finished run with include_columns in which a table's own
\* attach failed and the next attempt is a column of that same table
C9_Witness ==
    /\ script = "column" /\ outcome = "verdict"
    /\ args.entry_type = "table" /\ args.include_columns = "true"
    /\ \E i \in 1..(Len(Patches) - 1) :
         /\ Patches[i].column = "" /\ Patches[i].status # 200
         /\ Patches[i + 1].column # ""
         /\ Patches[i + 1].target = Patches[i].target

ColumnRun == script = "column" /\ args.entry_type = "column"

\* C10 as claimed: an attempt carrying a column target is issued only for a
\* table whose schema has a column of that name.
C10_SchemaFiltered ==
    ColumnRun =>
        \A i \in 1..Len(Patches) :
            Patches[i].column \in Range(TableAt(Patches[i]).schema)

\* C10 amended: with entry_type = column, every attempt carries the column
\* filter as its target and is issued for a table that passed the asset and
\* table filters, under an asset of type BIGQUERY_DATASET; no schema is ever
\* read, so the table need not have a column of that name.
C10_ColumnIsTarget ==
    ColumnRun =>
        \A i \in 1..Len(requests) :
            LET r == requests[i]
            IN  /\ r.op # "schema"
                /\ r.op = "patch" =>
                      /\ r.column = args.column
                      /\ args.column # ""
                      /\ PassesAsset(AssetAt(r))
                      /\ AssetAt(r).type = "BIGQUERY_DATASET"
                      /\ PassesTable(TableAt(r))
                      /\ r.target = EntryOf(AssetAt(r), TableAt(r))

\* C10 witness: under a table filter, an attempt was issued for a table that
\* passed the filters and another for a table that has no such column
C10_Witness ==
    /\ ColumnRun
    /\ \E i \in 1..Len(Patches) :
         args.column \notin Range(TableAt(Patches[i]).schema)
    /\ \E i \in 1..Len(Patches) :
         args.column \in Range(TableAt(Patches[i]).schema)

-----------------------------------------------------------------------------
(* Statements that the code does not meet.                                 *)

\* the run got past resolution and authentication and was not ended by the
\* missing --column exit
Walking == outcome \notin {"config_error", "auth_error", "usage_error"}

\* C4: a column run without a table filter issues no network call and ends
\* in failure.
C4_ColumnNeedsTable ==
    (ColumnRun /\ args.table = "") =>
        /\ requests = <<>>
        /\ (pc = "done" => exit_code = 1)

\* C5: in aspect_attach_column.py a failed asset listing, table listing or
\* schema read below an existing lake only skips its own branch: the run
\* reaches its verdict, its attempts are those of the traversal that skips
\* failed branches, and the exit code follows the number of successes.
C5_ListingFailureSkips ==
    (script = "column" /\ lake.status = "ok" /\ pc = "done" /\ Walking) =>
        /\ outcome = "verdict"
        /\ Attempts = ExpectedAttempts(FALSE)
        /\ (exit_code = 0 <=> NumOk >= 1)

TableGranularity == args.entry_type \in {"table", "column"}

\* every table that passes the table filter, in a BIGQUERY_DATASET asset that
\* passes the asset filter, has an attach attempt
EveryMatchingTableAttempted ==
    \A z \in 1..Len(lake.zones) :
      \A a \in 1..Len(lake.zones[z].assets) :
        LET asset == lake.zones[z].assets[a]
        IN  (/\ PassesAsset(asset)
             /\ asset.type = "BIGQUERY_DATASET"
             /\ WellFormed(asset)) =>
              \A t \in 1..Len(Dataset(RefOf(asset)).tables) :
                PassesTable(Dataset(RefOf(asset)).tables[t]) =>
                  \E i \in 1..Len(requests) :
                    /\ requests[i].op = "patch"
                    /\ requests[i].at[1] = z
                    /\ requests[i].at[2] = a
                    /\ requests[i].at[3] = t

\* C6: at table or column granularity, in both scripts, an attach call is
\* issued only for a table that passes the table filter under an asset that
\* passes the asset filter; no dataset, table or schema read is made for an
\* asset that fails the asset filter; and by the end of the run every table
\* that passes both filters under a BIGQUERY_DATASET asset has an attempt.
C6_ConjunctiveScope ==
    TableGranularity =>
        /\ \A i \in 1..Len(requests) :
             LET r == requests[i]
             IN  /\ r.op = "patch" =>
                       PassesAsset(AssetAt(r)) /\ PassesTable(TableAt(r))
                 /\ r.op \in {"dataset", "tables", "schema"} =>
                       PassesAsset(AssetAt(r))
        /\ (pc = "done" /\ Walking) => EveryMatchingTableAttempted

\* C7: on a lake that exists, aspect_attach.py ends with exit code 0 exactly
\* when an attach call was answered 200; a run that found nothing to attach
\* to, or whose attach calls all failed, ends with exit code 1.
C7_ExitCodeFollowsSuccess ==
    (script = "attach" /\ lake.status = "ok" /\ pc = "done") =>
        (exit_code = 0 <=> NumOk >= 1)

\* no listing of the lake fails: the lake and its zones answer, and so does
\* the dataset of every well-formed asset
NoListingFailure ==
    /\ lake.status = "ok"
    /\ \A z \in Range(lake.zones) :
         /\ z.status = "ok"
         /\ \A a \in Range(z.assets) :
              WellFormed(a) => Dataset(RefOf(a)).status = "ok"

\* C8: in aspect_attach.py a BIGQUERY_DATASET asset whose resource path is
\* missing or too short is skipped: with no listing failing, every zone has
\* been listed and every matching table attempted when the function returns.
C8_BadPathSkipped ==
    (/\ script = "attach" /\ pc = "done" /\ outcome = "returned"
     /\ NoListingFailure) =>
        /\ \A z \in 1..Len(lake.zones) :
             \E i \in 1..Len(requests) :
               requests[i].op = "assets" /\ requests[i].at[1] = z
        /\ EveryMatchingTableAttempted

=============================================================================
